---- MODULE Spec2Model ----
(***************************************************************************)
(* Client-side conversation orchestration of the Maveric RADP demo        *)
(* front-end.  The repository holds two host components with the same     *)
(* session / timeline / request logic: Dashboard (mounted by App, with    *)
(* the GuidedTour, the Sidebar and the keyboard shortcuts) and ChatWidget  *)
(* (with the mode selector).  Both use the InputBox composer and the      *)
(* suggestion buttons of MessageBubble.  `host` says which one is mounted. *)
(*                                                                         *)
(* One step of the model is one browser event: a user event runs its      *)
(* handler to completion and React commits the state it set before the    *)
(* next event is dispatched; the continuation of an async handler after   *)
(* its await runs as an event of its own when the HTTP response arrives.  *)
(***************************************************************************)
EXTENDS Integers, Sequences, FiniteSets, TLC

\* ------------------------------------------------------------------ bounds
\* Sends accepted over one behaviour.
MaxSends == 2
\* Session tokens drawn from uuidv4() over one behaviour.
MaxTokens == 2
\* Mode changes over one behaviour.
MaxModeChanges == 1

\* ------------------------------------------------------------- constants
\* stages.length of GuidedTour
NumStages == 5

\* What the user can have typed into the composer: nothing, white space, text.
TypedTexts == {<<>>, <<" ">>, <<"a">>}

\* String.prototype.trim: strips leading and trailing white space.
RECURSIVE TrimLeft(_)
TrimLeft(t) == IF t # <<>> /\ Head(t) = " " THEN TrimLeft(Tail(t)) ELSE t

RECURSIVE TrimRight(_)
TrimRight(t) ==
    IF t # <<>> /\ t[Len(t)] = " " THEN TrimRight(SubSeq(t, 1, Len(t) - 1)) ELSE t

Trim(t) == TrimRight(TrimLeft(t))

\* JavaScript truthiness of a string: the empty string is falsy.
Truthy(t) == t # <<>>

\* The fixed prompts of the Sidebar quick actions.
ApiPrompt == <<"Show me the complete API reference documentation for Maveric RADP">>
QuickstartPrompt == <<"Give me a quick start guide for getting started with Maveric RADP. What are the first steps?">>

\* stages[i].deepDivePrompt
DeepDivePrompt(i) ==
    CASE i = 0 -> <<"Explain the key benefits and use cases of Maveric RADP in detail">>
      [] i = 1 -> <<"Show me detailed examples of network topology configuration and simulation parameters">>
      [] i = 2 -> <<"Explain how the Digital Twin training process works and what algorithms are used">>
      [] i = 3 -> <<"Show me examples of RF prediction outputs and how to interpret coverage maps">>
      [] i = 4 -> <<"Explain the orchestration architecture and how distributed processing works">>
      [] OTHER -> <<"undefined">>

\* Contents the client itself writes into assistant messages.
AnswerText == <<"answer">>
DashboardErrorText == <<"**Error Processing Request**">>
ChatWidgetErrorText == <<"An error occurred processing your request.">>
WelcomeText == <<"Welcome to the Maveric RADP Documentation Assistant.">>
Undefined == <<"undefined">>

\* Lists of follow-up prompts the service may attach to an answer.
SuggestionLists == {<<>>, << <<"a">>, <<" ">> >>}

\* The modes of the mode selector, as sequences of the pieces of their ids.
Modes == {<<"full", "_", "overview">>, <<"module", "_", "deep", "_", "dive">>,
          <<"general", "_", "qa">>}

\* String.prototype.replace('_', ' '): replaces the first occurrence only.
RECURSIVE ReplaceFirstUnderscore(_)
ReplaceFirstUnderscore(s) ==
    IF s = <<>> THEN <<>>
    ELSE IF Head(s) = "_" THEN <<" ">> \o Tail(s)
    ELSE <<Head(s)>> \o ReplaceFirstUnderscore(Tail(s))

\* ------------------------------------------------------------------ state
VARIABLES
    host,            \* the mounted host component: "Dashboard" or "ChatWidget"
    pc,              \* "boot" before the session effect has run, then "ready"
    storage,         \* localStorage['docbot_session_id'], 0 when absent
    sessionId,       \* host state, 0 for null
    messages,        \* host state: the timeline
    isLoading,       \* host state: the loading flag
    showGuidedTour,  \* Dashboard state
    showWelcome,     \* ChatWidget state
    mode,            \* ChatWidget state
    tourStarted,     \* GuidedTour state
    currentStage,    \* GuidedTour state
    draft,           \* InputBox state `message`
    chatReqs,        \* POST /api/v1/chat requests awaiting their response
    histReqs,        \* GET /api/v1/chat/history requests awaiting their response
    nextToken,       \* the next value uuidv4() returns
    nextSend,        \* the number the next accepted send gets
    modeChanges,     \* mode changes made so far
    lastOp           \* the event dispatched last

\* Everything a host handler determines; draft and lastOp are the caller's.
core == <<host, pc, storage, sessionId, messages, isLoading, showGuidedTour, showWelcome,
          mode, tourStarted, currentStage, chatReqs, histReqs, nextToken, nextSend,
          modeChanges>>

vars == <<core, draft, lastOp>>

\* `exits` counts the calls of onExitTour the event made; `outcome` is what the
\* service answered when the event is the arrival of a response.
\* `target` is the tag name of the element a key event is dispatched at, and
\* `focuses` counts the calls of focus() on the composer the event made.
\* `returned` is the number of messages a history response carried.
OpExits(name, arg, n) ==
    [op |-> name, arg |-> arg, exits |-> n, outcome |-> "none", target |-> "none",
     focuses |-> 0, returned |-> 0]
Op(name, arg) == OpExits(name, arg, 0)
OpOutcome(name, arg, kind) == [Op(name, arg) EXCEPT !.outcome = kind]
OpHistory(sid, outcome) ==
    [OpOutcome("historyResponse", sid, outcome.kind) EXCEPT !.returned = Len(outcome.messages)]
OpFocus(name, arg, target, n) == [Op(name, arg) EXCEPT !.target = target, !.focuses = n]

\* ---------------------------------------------------------------- messages
\* `send` is the number of the send a message belongs to (0: none); it stands
\* for the identity of the message object.
UserMessage(text, n) ==
    [role |-> "user", content |-> text, isError |-> FALSE, suggestions |-> <<>>, send |-> n]

BotMessage(content, suggestions, n) ==
    [role |-> "assistant", content |-> content, isError |-> FALSE,
     suggestions |-> suggestions, send |-> n]

ErrorMessage(n) ==
    [role |-> "assistant",
     content |-> IF host = "Dashboard" THEN DashboardErrorText ELSE ChatWidgetErrorText,
     isError |-> TRUE, suggestions |-> <<>>, send |-> n]

\* ChatWidget.addWelcomeMessage
WelcomeMessage ==
    [role |-> "assistant", content |-> WelcomeText, isError |-> FALSE, suggestions |-> <<>>,
     send |-> 0]

\* ChatWidget.handleModeChange: the annotation
ModeChangeMessage(newMode) ==
    [role |-> "system", content |-> <<"Mode changed to: ">> \o ReplaceFirstUnderscore(newMode),
     isError |-> FALSE, suggestions |-> <<>>, send |-> 0]

\* ------------------------------------------------------------------ render
\* Mutant: the render condition looks at showGuidedTour alone.
TourViewActive_IgnoresTimeline == host = "Dashboard" /\ showGuidedTour

\* Dashboard render: the tour is mounted in place of the timeline.
TourViewActive == host = "Dashboard" /\ showGuidedTour /\ Len(messages) = 0

\* Mutant: a tour mounted again resumes at the stage the last one was left at.
TourState_KeepsStage(stage, started) ==
    IF TourViewActive'
    THEN currentStage' = stage /\ tourStarted' = started
    ELSE currentStage' = stage /\ tourStarted' = FALSE

\* GuidedTour keeps its state while it stays mounted; an unmounted tour has
\* none, and a tour mounted again starts from its useState initial values.
TourState(stage, started) ==
    IF TourViewActive'
    THEN currentStage' = stage /\ tourStarted' = started
    ELSE currentStage' = 0 /\ tourStarted' = FALSE

TourKept == TourState(currentStage, tourStarted)

Init ==
    /\ host \in {"Dashboard", "ChatWidget"}
    /\ pc = "boot"
    /\ storage \in {0, 1}
    /\ sessionId = 0
    /\ messages = <<>>
    /\ isLoading = FALSE
    /\ showGuidedTour = TRUE
    /\ showWelcome = TRUE
    /\ mode = <<"full", "_", "overview">>
    /\ tourStarted = FALSE
    /\ currentStage = 0
    /\ draft = <<>>
    /\ chatReqs = {}
    /\ histReqs = {}
    /\ nextToken = storage + 1
    /\ nextSend = 1
    /\ modeChanges = 0
    /\ lastOp = Op("construct", 0)

\* ----------------------------------------------------------------- session
\* Mutant: the session effect draws a new token also when one is persisted.
InitializeSession_AlwaysNew ==
    /\ pc = "boot"
    /\ pc' = "ready"
    /\ sessionId' = nextToken
    /\ storage' = nextToken
    /\ nextToken' = nextToken + 1
    /\ histReqs' = IF storage # 0 THEN histReqs \cup {nextToken} ELSE histReqs
    /\ messages' = IF host = "ChatWidget" THEN <<WelcomeMessage>> ELSE messages
    /\ lastOp' = Op("initialize", 0)
    /\ UNCHANGED <<host, isLoading, showGuidedTour, showWelcome, mode, tourStarted,
                   currentStage, draft, chatReqs, nextSend, modeChanges>>

\* The session effect both hosts run once after the first render; ChatWidget
\* then adds its welcome message.
InitializeSession ==
    /\ pc = "boot"
    /\ pc' = "ready"
    /\ IF storage # 0
       THEN /\ sessionId' = storage
            /\ histReqs' = histReqs \cup {storage}
            /\ UNCHANGED <<storage, nextToken>>
       ELSE /\ sessionId' = nextToken
            /\ storage' = nextToken
            /\ nextToken' = nextToken + 1
            /\ UNCHANGED histReqs
    /\ messages' = IF host = "ChatWidget" THEN <<WelcomeMessage>> ELSE messages
    /\ lastOp' = Op("initialize", 0)
    /\ UNCHANGED <<host, isLoading, showGuidedTour, showWelcome, mode, tourStarted,
                   currentStage, draft, chatReqs, nextSend, modeChanges>>

\* Mutant: the new token is not written to localStorage.
Dashboard_handleNewConversation_NoPersist ==
    /\ sessionId' = nextToken
    /\ nextToken' = nextToken + 1
    /\ messages' = <<>>
    /\ showGuidedTour' = TRUE
    /\ UNCHANGED <<host, pc, storage, isLoading, showWelcome, mode, chatReqs, histReqs,
                   nextSend, modeChanges>>
    /\ TourState(currentStage, tourStarted)

\* Mutant: the reset drops the requests that are in flight.
Dashboard_handleNewConversation_Cancels ==
    /\ sessionId' = nextToken
    /\ storage' = nextToken
    /\ nextToken' = nextToken + 1
    /\ messages' = <<>>
    /\ showGuidedTour' = TRUE
    /\ chatReqs' = {}
    /\ isLoading' = FALSE
    /\ UNCHANGED <<host, pc, showWelcome, mode, histReqs, nextSend, modeChanges>>
    /\ TourKept

\* Dashboard.handleNewConversation
Dashboard_handleNewConversation ==
    /\ sessionId' = nextToken
    /\ storage' = nextToken
    /\ nextToken' = nextToken + 1
    /\ messages' = <<>>
    /\ showGuidedTour' = TRUE
    /\ UNCHANGED <<host, pc, isLoading, showWelcome, mode, chatReqs, histReqs, nextSend,
                   modeChanges>>
    /\ TourKept

\* ChatWidget.handleNewConversation
ChatWidget_handleNewConversation ==
    /\ sessionId' = nextToken
    /\ storage' = nextToken
    /\ nextToken' = nextToken + 1
    /\ messages' = <<WelcomeMessage>>
    /\ showWelcome' = TRUE
    /\ UNCHANGED <<host, pc, isLoading, showGuidedTour, mode, tourStarted, currentStage,
                   chatReqs, histReqs, nextSend, modeChanges>>

handleNewConversation ==
    /\ nextToken <= MaxTokens
    /\ IF host = "Dashboard"
       THEN Dashboard_handleNewConversation
       ELSE ChatWidget_handleNewConversation

\* Mutant: leaving the tour also forgets the persisted token.
handleExitTour_DropsToken ==
    /\ showGuidedTour' = FALSE
    /\ storage' = 0
    /\ UNCHANGED <<host, pc, sessionId, messages, isLoading, showWelcome, mode,
                   chatReqs, histReqs, nextToken, nextSend, modeChanges>>
    /\ TourKept

\* Dashboard.handleExitTour
handleExitTour ==
    /\ showGuidedTour' = FALSE
    /\ UNCHANGED <<host, pc, storage, sessionId, messages, isLoading, showWelcome, mode,
                   chatReqs, histReqs, nextToken, nextSend, modeChanges>>
    /\ TourKept

\* -------------------------------------------------------------------- send
\* selectedModule: no code path calls setSelectedModule.
SelectedModule == "null"

\* Mutant: the body carries the mode the component was constructed with.
ChatRequest_InitialMode(message) ==
    [id |-> nextSend, message |-> message, session_id |-> sessionId,
     mode |-> IF host = "Dashboard" THEN <<"general", "_", "qa">>
                                    ELSE <<"full", "_", "overview">>,
     module |-> SelectedModule]

\* Mutant: the body carries the token of the session before the current one.
ChatRequest_StaleToken(message) ==
    [id |-> nextSend, message |-> message,
     session_id |-> IF sessionId > 1 THEN sessionId - 1 ELSE sessionId,
     mode |-> IF host = "Dashboard" THEN <<"general", "_", "qa">> ELSE mode,
     module |-> SelectedModule]

\* The body of the POST the hosts issue.
ChatRequest(message) ==
    [id |-> nextSend, message |-> message, session_id |-> sessionId,
     mode |-> IF host = "Dashboard" THEN <<"general", "_", "qa">> ELSE mode,
     module |-> SelectedModule]

\* Mutant: the guard on the trimmed text is missing.
Dashboard_handleSendMessage_NoTrim(message) ==
    /\ nextSend <= MaxSends
    /\ showGuidedTour' = FALSE
    /\ messages' = Append(messages, UserMessage(message, nextSend))
    /\ isLoading' = TRUE
    /\ chatReqs' = chatReqs \cup {ChatRequest(message)}
    /\ nextSend' = nextSend + 1
    /\ UNCHANGED <<host, pc, storage, sessionId, showWelcome, mode, histReqs,
                   nextToken, modeChanges>>
    /\ TourKept

\* Mutant: the user message is not appended when the send is made.
Dashboard_handleSendMessage_NoOptimistic(message) ==
    IF ~Truthy(Trim(message))
    THEN UNCHANGED core
    ELSE /\ nextSend <= MaxSends
         /\ showGuidedTour' = FALSE
         /\ isLoading' = TRUE
         /\ chatReqs' = chatReqs \cup {ChatRequest(message)}
         /\ nextSend' = nextSend + 1
         /\ UNCHANGED <<host, pc, storage, sessionId, messages, showWelcome, mode, histReqs,
                        nextToken, modeChanges>>
         /\ TourKept

\* Dashboard.handleSendMessage up to its await.
Dashboard_handleSendMessage(message) ==
    IF ~Truthy(Trim(message))
    THEN UNCHANGED core
    ELSE /\ nextSend <= MaxSends
         /\ showGuidedTour' = FALSE
         /\ messages' = Append(messages, UserMessage(message, nextSend))
         /\ isLoading' = TRUE
         /\ chatReqs' = chatReqs \cup {ChatRequest(message)}
         /\ nextSend' = nextSend + 1
         /\ UNCHANGED <<host, pc, storage, sessionId, showWelcome, mode, histReqs,
                        nextToken, modeChanges>>
         /\ TourKept

\* ChatWidget.handleSendMessage up to its await.
ChatWidget_handleSendMessage(message) ==
    IF ~Truthy(Trim(message))
    THEN UNCHANGED core
    ELSE /\ nextSend <= MaxSends
         /\ messages' = Append(messages, UserMessage(message, nextSend))
         /\ showWelcome' = FALSE
         /\ isLoading' = TRUE
         /\ chatReqs' = chatReqs \cup {ChatRequest(message)}
         /\ nextSend' = nextSend + 1
         /\ UNCHANGED <<host, pc, storage, sessionId, showGuidedTour, mode, tourStarted,
                        currentStage, histReqs, nextToken, modeChanges>>

\* The onSendMessage prop the host hands to its children.
handleSendMessage(message) ==
    IF host = "Dashboard"
    THEN Dashboard_handleSendMessage(message)
    ELSE ChatWidget_handleSendMessage(message)

\* What the service can answer to a chat request.
ChatOutcomes ==
    [kind : {"ok"}, suggestions : SuggestionLists]
        \cup [kind : {"noResponseField", "nullData", "failed"}, suggestions : {<<>>}]

\* Mutant: the catch block only logs the failure.
ChatCompletion_NoErrorMessage(req, outcome) ==
    /\ messages' =
         CASE outcome.kind = "ok" ->
                Append(messages, BotMessage(AnswerText, outcome.suggestions, req.id))
           [] outcome.kind = "noResponseField" ->
                Append(messages, BotMessage(Undefined, <<>>, req.id))
           [] OTHER -> messages
    /\ isLoading' = FALSE

\* Mutant: the terminal message replaces the timeline instead of extending it.
ChatCompletion_Overwrite(req, outcome) ==
    /\ messages' =
         << CASE outcome.kind = "ok" -> BotMessage(AnswerText, outcome.suggestions, req.id)
              [] outcome.kind = "noResponseField" -> BotMessage(Undefined, <<>>, req.id)
              [] OTHER -> ErrorMessage(req.id) >>
    /\ isLoading' = FALSE

\* Mutant: the message of the catch block is not flagged as an error.
ChatCompletion_ErrorUnflagged(req, outcome) ==
    /\ messages' =
         Append(messages,
                CASE outcome.kind = "ok" -> BotMessage(AnswerText, outcome.suggestions, req.id)
                  [] outcome.kind = "noResponseField" -> BotMessage(Undefined, <<>>, req.id)
                  [] OTHER -> [ErrorMessage(req.id) EXCEPT !.isError = FALSE])
    /\ isLoading' = FALSE

\* Mutant: the flag is released at the end of the try block, not in a finally.
ChatCompletion_NoFinally(req, outcome) ==
    /\ messages' =
         Append(messages,
                CASE outcome.kind = "ok" -> BotMessage(AnswerText, outcome.suggestions, req.id)
                  [] outcome.kind = "noResponseField" -> BotMessage(Undefined, <<>>, req.id)
                  [] OTHER -> ErrorMessage(req.id))
    /\ isLoading' = IF outcome.kind \in {"ok", "noResponseField"} THEN FALSE ELSE isLoading

\* handleSendMessage from its await on (the same in both hosts): try, catch, finally.
ChatCompletion(req, outcome) ==
    /\ messages' =
         Append(messages,
                CASE outcome.kind = "ok" -> BotMessage(AnswerText, outcome.suggestions, req.id)
                  [] outcome.kind = "noResponseField" -> BotMessage(Undefined, <<>>, req.id)
                  [] OTHER -> ErrorMessage(req.id))
    /\ isLoading' = FALSE

\* Mutant: a rejected request is issued again instead of being reported.
ChatResponse_RetriesOnFailure ==
    /\ pc = "ready"
    /\ \E req \in chatReqs, outcome \in ChatOutcomes :
         /\ IF outcome.kind = "failed"
            THEN UNCHANGED <<messages, isLoading, chatReqs>>
            ELSE /\ ChatCompletion(req, outcome)
                 /\ chatReqs' = chatReqs \ {req}
         /\ lastOp' = OpOutcome("chatResponse", req.id, outcome.kind)
    /\ UNCHANGED <<host, pc, storage, sessionId, showGuidedTour, showWelcome, mode, draft,
                   histReqs, nextToken, nextSend, modeChanges>>
    /\ TourKept

ChatResponse ==
    /\ pc = "ready"
    /\ \E req \in chatReqs, outcome \in ChatOutcomes :
         /\ ChatCompletion(req, outcome)
         /\ chatReqs' = chatReqs \ {req}
         /\ lastOp' = OpOutcome("chatResponse", req.id, outcome.kind)
    /\ UNCHANGED <<host, pc, storage, sessionId, showGuidedTour, showWelcome, mode, draft,
                   histReqs, nextToken, nextSend, modeChanges>>
    /\ TourKept

\* ----------------------------------------------------------------- history
\* Messages as GET /api/v1/chat/history/{sid} returns them.
RemoteUser == [role |-> "user", content |-> <<"q">>]
RemoteAssistant == [role |-> "assistant", content |-> <<"r">>]
RemoteHistories ==
    {<<>>, <<RemoteUser, RemoteAssistant>>, <<RemoteAssistant, RemoteUser>>,
     <<RemoteUser, RemoteUser>>}

\* What the service can answer to a history request.
HistoryOutcomes ==
    [kind : {"ok"}, messages : RemoteHistories]
        \cup [kind : {"noMessagesField", "failed"}, messages : {<<>>}]

\* Mutant: the loaded messages are put in the reverse order.
FormattedMessages_Reversed(remote) ==
    [i \in 1..Len(remote) |->
        [role |-> remote[Len(remote) + 1 - i].role,
         content |-> remote[Len(remote) + 1 - i].content, isError |-> FALSE,
         suggestions |-> <<>>, send |-> 0]]

\* loadHistory: response.data.messages.map(msg => ({role, content, ...}))
FormattedMessages(remote) ==
    [i \in 1..Len(remote) |->
        [role |-> remote[i].role, content |-> remote[i].content, isError |-> FALSE,
         suggestions |-> <<>>, send |-> 0]]

\* Mutant: the loaded messages are added behind the timeline.
Dashboard_loadedTimeline_Appends(prev, outcome) ==
    IF outcome.kind = "ok" /\ Len(outcome.messages) > 0
    THEN prev \o FormattedMessages(outcome.messages)
    ELSE prev

\* The timeline Dashboard.loadHistory leaves when it ran on timeline prev.
Dashboard_loadedTimeline(prev, outcome) ==
    IF outcome.kind = "ok" /\ Len(outcome.messages) > 0
    THEN FormattedMessages(outcome.messages)
    ELSE prev

\* The timeline ChatWidget.loadHistory leaves: an empty array is truthy.
ChatWidget_loadedTimeline(prev, outcome) ==
    IF outcome.kind = "ok" THEN FormattedMessages(outcome.messages) ELSE prev

loadedTimeline(prev, outcome) ==
    IF host = "Dashboard"
    THEN Dashboard_loadedTimeline(prev, outcome)
    ELSE ChatWidget_loadedTimeline(prev, outcome)

\* Mutant: the catch block of loadHistory empties the timeline.
Dashboard_loadHistory_ClearsOnFailure(outcome) ==
    /\ messages' = IF outcome.kind = "failed"
                   THEN <<>>
                   ELSE Dashboard_loadedTimeline(messages, outcome)
    /\ showGuidedTour' =
         IF outcome.kind = "ok" /\ Len(outcome.messages) > 0 THEN FALSE ELSE showGuidedTour
    /\ UNCHANGED showWelcome

\* Mutant: every successful load hides the tour, an empty one included.
Dashboard_loadHistory_HidesTourOnEmpty(outcome) ==
    /\ messages' = Dashboard_loadedTimeline(messages, outcome)
    /\ showGuidedTour' = IF outcome.kind = "ok" THEN FALSE ELSE showGuidedTour
    /\ UNCHANGED showWelcome

\* Dashboard.loadHistory from its await on.
Dashboard_loadHistory(outcome) ==
    /\ messages' = Dashboard_loadedTimeline(messages, outcome)
    /\ showGuidedTour' =
         IF outcome.kind = "ok" /\ Len(outcome.messages) > 0 THEN FALSE ELSE showGuidedTour
    /\ UNCHANGED showWelcome

\* ChatWidget.loadHistory from its await on.
ChatWidget_loadHistory(outcome) ==
    /\ messages' = ChatWidget_loadedTimeline(messages, outcome)
    /\ showWelcome' = IF outcome.kind = "ok" THEN FALSE ELSE showWelcome
    /\ UNCHANGED showGuidedTour

HistoryResponse ==
    /\ pc = "ready"
    /\ \E sid \in histReqs, outcome \in HistoryOutcomes :
         /\ IF host = "Dashboard"
            THEN Dashboard_loadHistory(outcome)
            ELSE ChatWidget_loadHistory(outcome)
         /\ histReqs' = histReqs \ {sid}
         /\ lastOp' = OpHistory(sid, outcome)
    /\ UNCHANGED <<host, pc, storage, sessionId, isLoading, mode, draft, chatReqs,
                   nextToken, nextSend, modeChanges>>
    /\ TourKept

\* ---------------------------------------------------------------- InputBox
\* The textarea is disabled while the host is loading.
handleChange ==
    /\ pc = "ready"
    /\ ~isLoading
    /\ \E text \in TypedTexts : draft' = text
    /\ lastOp' = Op("handleChange", 0)
    /\ UNCHANGED core

\* Mutant: an accepted submit leaves the draft in the composer.
handleSubmit_KeepsDraft ==
    IF Truthy(Trim(draft)) /\ ~isLoading
    THEN /\ handleSendMessage(draft)
         /\ UNCHANGED draft
    ELSE UNCHANGED <<core, draft>>

\* InputBox.handleSubmit, with disabled = isLoading
handleSubmit ==
    IF Truthy(Trim(draft)) /\ ~isLoading
    THEN /\ handleSendMessage(draft)
         /\ draft' = <<>>
    ELSE UNCHANGED <<core, draft>>

\* A click on the send button, which is disabled while loading or on a blank draft.
SubmitClick ==
    /\ pc = "ready"
    /\ ~(isLoading \/ ~Truthy(Trim(draft)))
    /\ handleSubmit
    /\ lastOp' = Op("handleSubmit", 0)

\* InputBox.handleKeyDown: Enter pressed in the (enabled) textarea.
handleKeyDown ==
    /\ pc = "ready"
    /\ ~isLoading
    /\ \E shiftKey \in BOOLEAN :
         /\ IF ~shiftKey
            THEN handleSubmit
            ELSE UNCHANGED <<core, draft>>
         /\ lastOp' = Op("handleKeyDown", IF shiftKey THEN 1 ELSE 0)

\* ----------------------------------------------------------- MessageBubble
\* A click on a suggestion button of a rendered message.
handleSuggestionClick ==
    /\ pc = "ready"
    /\ ~TourViewActive
    /\ \E i \in 1..Len(messages) :
         \E k \in 1..Len(messages[i].suggestions) :
            /\ handleSendMessage(messages[i].suggestions[k])
            /\ lastOp' = Op("handleSuggestionClick", k)
    /\ UNCHANGED draft

\* ----------------------------------------------------------------- Sidebar
Sections == {"home", "guided-tour", "ask-now", "api", "quickstart"}

\* Sidebar.handleNavigation
handleNavigation(section) ==
    /\ pc = "ready"
    /\ host = "Dashboard"
    /\ CASE section \in {"home", "guided-tour"} -> handleNewConversation
         [] section = "api" -> handleSendMessage(ApiPrompt)
         [] section = "quickstart" -> handleSendMessage(QuickstartPrompt)
         [] OTHER -> UNCHANGED core
    /\ lastOp' = OpFocus(section, 0, "none", IF section = "ask-now" THEN 1 ELSE 0)
    /\ UNCHANGED draft

\* The New Conversation button of the Sidebar, the New button of ChatWidget.
NewConversationClick ==
    /\ pc = "ready"
    /\ handleNewConversation
    /\ lastOp' = Op("new-conversation", 0)
    /\ UNCHANGED draft

\* The tag names of the elements of the Dashboard a key event is dispatched
\* at: the composer's textarea when it has the focus, the body or a button
\* otherwise.  The textarea is disabled while the host is loading, and a
\* disabled control is not the target of key events.
TagNames == {"TEXTAREA", "BODY"}

\* Mutant: '/' focuses the composer whatever the target is.
handleKeyboardShortcuts_Unscoped ==
    /\ pc = "ready"
    /\ host = "Dashboard"
    /\ \E key \in {"k", "/"}, ctrlKey \in BOOLEAN, tagName \in TagNames :
         /\ tagName = "TEXTAREA" => ~isLoading
         /\ IF ctrlKey /\ key = "k"
            THEN handleNewConversation
            ELSE UNCHANGED core
         /\ lastOp' = OpFocus("key-" \o key, IF ctrlKey THEN 1 ELSE 0, tagName,
                              IF key = "/" THEN 1 ELSE 0)
    /\ UNCHANGED draft

\* Dashboard.handleKeyboardShortcuts; ctrlKey stands for e.metaKey || e.ctrlKey.
handleKeyboardShortcuts ==
    /\ pc = "ready"
    /\ host = "Dashboard"
    /\ \E key \in {"k", "/"}, ctrlKey \in BOOLEAN, tagName \in TagNames :
         /\ tagName = "TEXTAREA" => ~isLoading
         /\ IF ctrlKey /\ key = "k"
            THEN handleNewConversation
            ELSE UNCHANGED core
         /\ lastOp' = OpFocus("key-" \o key, IF ctrlKey THEN 1 ELSE 0, tagName,
                              IF key = "/" /\ tagName \notin {"INPUT", "TEXTAREA"}
                              THEN 1 ELSE 0)
    /\ UNCHANGED draft

\* -------------------------------------------------------------- ChatWidget
\* Mutant: the annotation replaces the timeline.
handleModeChange_Clears(newMode) ==
    /\ pc = "ready"
    /\ host = "ChatWidget"
    /\ modeChanges < MaxModeChanges
    /\ modeChanges' = modeChanges + 1
    /\ mode' = newMode
    /\ messages' = <<ModeChangeMessage(newMode)>>
    /\ lastOp' = Op("handleModeChange", 0)
    /\ UNCHANGED <<host, pc, storage, sessionId, isLoading, showGuidedTour, showWelcome,
                   tourStarted, currentStage, draft, chatReqs, histReqs, nextToken,
                   nextSend>>

\* ChatWidget.handleModeChange
handleModeChange(newMode) ==
    /\ pc = "ready"
    /\ host = "ChatWidget"
    /\ modeChanges < MaxModeChanges
    /\ modeChanges' = modeChanges + 1
    /\ mode' = newMode
    /\ messages' = Append(messages, ModeChangeMessage(newMode))
    /\ lastOp' = Op("handleModeChange", 0)
    /\ UNCHANGED <<host, pc, storage, sessionId, isLoading, showGuidedTour, showWelcome,
                   tourStarted, currentStage, draft, chatReqs, histReqs, nextToken,
                   nextSend>>

\* -------------------------------------------------------------- GuidedTour
handleStartTour ==
    /\ pc = "ready"
    /\ TourViewActive /\ ~tourStarted
    /\ tourStarted' = TRUE
    /\ lastOp' = Op("handleStartTour", 0)
    /\ UNCHANGED <<host, pc, storage, sessionId, messages, isLoading, showGuidedTour,
                   showWelcome, mode, currentStage, draft, chatReqs, histReqs, nextToken,
                   nextSend, modeChanges>>

\* Mutant: the bound of the last stage is off by one.
handleContinue_OffByOne ==
    /\ pc = "ready"
    /\ TourViewActive /\ tourStarted
    /\ IF currentStage < NumStages
       THEN /\ currentStage' = currentStage + 1
            /\ lastOp' = Op("handleContinue", currentStage)
            /\ UNCHANGED <<host, pc, storage, sessionId, messages, isLoading,
                           showGuidedTour, showWelcome, mode, tourStarted, chatReqs,
                           histReqs, nextToken, nextSend, modeChanges>>
       ELSE /\ handleExitTour
            /\ lastOp' = OpExits("handleContinue", currentStage, 1)
    /\ UNCHANGED draft

\* Mutant: continue goes straight to the last stage.
handleContinue_Skips ==
    /\ pc = "ready"
    /\ TourViewActive /\ tourStarted
    /\ IF currentStage < NumStages - 1
       THEN /\ currentStage' = NumStages - 1
            /\ lastOp' = Op("handleContinue", currentStage)
            /\ UNCHANGED <<host, pc, storage, sessionId, messages, isLoading,
                           showGuidedTour, showWelcome, mode, tourStarted, chatReqs,
                           histReqs, nextToken, nextSend, modeChanges>>
       ELSE /\ handleExitTour
            /\ lastOp' = OpExits("handleContinue", currentStage, 1)
    /\ UNCHANGED draft

\* Mutant: the test for the last stage is missing.
handleContinue_NeverExits ==
    /\ pc = "ready"
    /\ TourViewActive /\ tourStarted
    /\ currentStage' = currentStage + 1
    /\ lastOp' = Op("handleContinue", currentStage)
    /\ UNCHANGED <<host, pc, storage, sessionId, messages, isLoading, showGuidedTour,
                   showWelcome, mode, tourStarted, draft, chatReqs, histReqs, nextToken,
                   nextSend, modeChanges>>

\* lastOp.arg is the stage the click was made at.
handleContinue ==
    /\ pc = "ready"
    /\ TourViewActive /\ tourStarted
    /\ IF currentStage < NumStages - 1
       THEN /\ currentStage' = currentStage + 1
            /\ lastOp' = Op("handleContinue", currentStage)
            /\ UNCHANGED <<host, pc, storage, sessionId, messages, isLoading,
                           showGuidedTour, showWelcome, mode, tourStarted, chatReqs,
                           histReqs, nextToken, nextSend, modeChanges>>
       ELSE /\ handleExitTour
            /\ lastOp' = OpExits("handleContinue", currentStage, 1)
    /\ UNCHANGED draft

\* Mutant: the prompt forwarded is the one of the stage that follows.
handleDeepDive_NextPrompt ==
    /\ pc = "ready"
    /\ TourViewActive /\ tourStarted
    /\ handleSendMessage(DeepDivePrompt(currentStage + 1))
    /\ lastOp' = Op("handleDeepDive", currentStage)
    /\ UNCHANGED draft

handleDeepDive ==
    /\ pc = "ready"
    /\ TourViewActive /\ tourStarted
    /\ handleSendMessage(DeepDivePrompt(currentStage))
    /\ lastOp' = Op("handleDeepDive", currentStage)
    /\ UNCHANGED draft

\* Mutant: the handler does not call onExitTour.
handleAskQuestion_NoExit ==
    /\ pc = "ready"
    /\ TourViewActive
    /\ lastOp' = OpExits("handleAskQuestion", 0, 0)
    /\ UNCHANGED <<core, draft>>

handleAskQuestion ==
    /\ pc = "ready"
    /\ TourViewActive
    /\ handleExitTour
    /\ lastOp' = OpExits("handleAskQuestion", 0, 1)
    /\ UNCHANGED draft

\* Mutant: every stage of the tracker can be jumped to.
handleStageClick_AnyStage(index) ==
    /\ pc = "ready"
    /\ TourViewActive /\ tourStarted
    /\ currentStage' = index
    /\ lastOp' = Op("handleStageClick", index)
    /\ UNCHANGED <<host, pc, storage, sessionId, messages, isLoading, showGuidedTour,
                   showWelcome, mode, tourStarted, draft, chatReqs, histReqs, nextToken,
                   nextSend, modeChanges>>

\* A click on stage `index` of the ProgressTracker.
handleStageClick(index) ==
    /\ pc = "ready"
    /\ TourViewActive /\ tourStarted
    /\ IF index <= currentStage \/ index = currentStage + 1
       THEN currentStage' = index
       ELSE UNCHANGED currentStage
    /\ lastOp' = Op("handleStageClick", index)
    /\ UNCHANGED <<host, pc, storage, sessionId, messages, isLoading, showGuidedTour,
                   showWelcome, mode, tourStarted, draft, chatReqs, histReqs, nextToken,
                   nextSend, modeChanges>>

Next ==
    \/ InitializeSession
    \/ ChatResponse
    \/ HistoryResponse
    \/ handleChange
    \/ SubmitClick
    \/ handleKeyDown
    \/ handleSuggestionClick
    \/ \E section \in Sections : handleNavigation(section)
    \/ NewConversationClick
    \/ handleKeyboardShortcuts
    \/ \E newMode \in Modes : handleModeChange(newMode)
    \/ handleStartTour
    \/ handleContinue
    \/ handleDeepDive
    \/ handleAskQuestion
    \/ \E index \in 0..(NumStages - 1) : handleStageClick(index)

Spec == Init /\ [][Next]_vars

\* ------------------------------------------------------------------ claims
\* The numbers of the sends whose request is in flight.
InFlight == {req.id : req \in chatReqs}

\* The positions of the timeline that hold a message of send n with the given role.
Positions(n, role) ==
    {i \in 1..Len(messages) : messages[i].send = n /\ messages[i].role = role}

IsPrefix(s, t) == Len(s) <= Len(t) /\ SubSeq(t, 1, Len(s)) = s

\* C1: at most one chat request is in flight at any time, over every send
\* entry point.
C1_AtMostOneInFlight == Cardinality(chatReqs) <= 1

\* C2: the timeline holds the messages of the sends in the order the sends
\* were dispatched: every message of an earlier send precedes every message of
\* a later send, whatever order the responses arrive in.
C2_SendOrder ==
    \A i, j \in 1..Len(messages) :
        (i < j /\ messages[i].send # 0 /\ messages[j].send # 0)
            => messages[i].send <= messages[j].send

\* C3: the completion of a send's request appends exactly one terminal
\* assistant message of that send (a reply or an error, never both, never
\* none) and no other step appends a terminal message.
C3_Terminal ==
    [][ /\ \A n \in InFlight \ InFlight' :
              /\ Len(messages') = Len(messages) + 1
              /\ IsPrefix(messages, messages')
              /\ messages'[Len(messages')].role = "assistant"
              /\ messages'[Len(messages')].send = n
        /\ \A n \in 1..MaxSends :
              Cardinality(Positions(n, "assistant")') > Cardinality(Positions(n, "assistant"))
                  => /\ n \in InFlight \ InFlight'
                     /\ Cardinality(Positions(n, "assistant")') = 1
      ]_vars

\* C3 witness: both kinds of terminal message have been appended, one per send.
C3_Witness ==
    /\ Len(messages) = 4
    /\ messages[2].role = "assistant" /\ messages[2].isError
    /\ messages[4].role = "assistant" /\ ~messages[4].isError
    /\ messages[2].send # messages[4].send
    /\ chatReqs = {}

\* The role-bearing entries of the timeline: system annotations aside.
RoleBearing == SelectSeq(messages, LAMBDA m : m.role \in {"user", "assistant"})

\* No reset has been made yet: the session is the one the page started with.
FirstSession == pc = "ready" /\ nextToken = 2

\* C4: after N sends have completed, the timeline holds exactly 2N user and
\* assistant entries, alternating user, assistant in send order.  Stated for
\* the Dashboard in its first session with no entry loaded from history.
C4_Pairing ==
    (/\ host = "Dashboard"
     /\ FirstSession
     /\ chatReqs = {}
     /\ \A i \in 1..Len(messages) : messages[i].send # 0)
        => /\ Len(RoleBearing) = 2 * (nextSend - 1)
           /\ \A k \in 1..Len(RoleBearing) :
                 /\ RoleBearing[k].role = IF k % 2 = 1 THEN "user" ELSE "assistant"
                 /\ RoleBearing[k].send = (k + 1) \div 2

\* The events that run handleNewConversation.
ResetOps ==
    {Op("home", 0), Op("guided-tour", 0), Op("new-conversation", 0)}
        \cup {OpFocus("key-k", 1, tagName, 0) : tagName \in TagNames}

\* C5: the timeline is append-only: every step other than a session reset or
\* a history load leaves the existing entries and their order as they were, so
\* the length never decreases.
C5_AppendOnly ==
    [][lastOp' \in ResetOps \/ lastOp'.op = "historyResponse" \/ IsPrefix(messages, messages')]_vars

\* C5 witness: a terminal message and an annotation were appended behind
\* entries that are still there.
C5_Witness ==
    /\ lastOp.op = "chatResponse"
    /\ Len(messages) >= 4
    /\ \E i \in 1..Len(messages) : messages[i].role = "system"

C7_MutualExclusion == Len(messages) > 0 => ~TourViewActive

\* C7 witness: the tour is switched on and the timeline holds a message.
C7_Witness == host = "Dashboard" /\ showGuidedTour /\ Len(messages) > 0

\* C8: a click on stage j of the tracker at Stage(i) moves the tour to
\* Stage(j) if and only if j <= i + 1, and leaves the tour state unchanged for
\* every other j.
C8_Jump ==
    [][lastOp'.op = "handleStageClick"
          => /\ TourViewActive' /\ tourStarted'
             /\ currentStage' = IF lastOp'.arg <= currentStage + 1
                                THEN lastOp'.arg
                                ELSE currentStage]_vars

\* C8 witness: a jump past the next stage was rejected.
C8_Witness ==
    /\ lastOp.op = "handleStageClick"
    /\ lastOp.arg > currentStage + 1
    /\ tourStarted

\* C9: start shows Stage(0); continue moves Stage(i) to Stage(i+1) for
\* i < N-1 and moves Stage(N-1) to Exited, calling the exit callback once.
C9_Continue ==
    [][/\ lastOp'.op = "handleStartTour"
            => TourViewActive' /\ tourStarted' /\ currentStage' = 0
       /\ lastOp'.op = "handleContinue"
            => IF currentStage < NumStages - 1
               THEN /\ TourViewActive' /\ tourStarted'
                    /\ currentStage' = currentStage + 1
                    /\ lastOp'.exits = 0
               ELSE /\ ~showGuidedTour' /\ ~TourViewActive'
                    /\ lastOp'.exits = 1]_vars

\* C9 witness: the continue at the last stage has ended the tour.
C9_Witness ==
    /\ lastOp = OpExits("handleContinue", NumStages - 1, 1)
    /\ ~showGuidedTour

\* C10 as stated: a reset leaves the persisted token equal to the new token
\* and the timeline empty.
C10_ResetEmpties == lastOp \in ResetOps => (storage = sessionId /\ messages = <<>>)

\* C10 as amended: a reset makes a token different from the previous one,
\* persists it, and leaves the timeline empty under Dashboard and holding only
\* the new welcome message under ChatWidget.
C10_Reset ==
    [][lastOp' \in ResetOps
          => /\ sessionId' # sessionId
             /\ storage' = sessionId'
             /\ messages' = IF host = "Dashboard" THEN <<>> ELSE <<WelcomeMessage>>]_vars

\* C10 witness: a reset made while the timeline held messages.
C10_Witness ==
    /\ lastOp \in ResetOps
    /\ nextSend > 1
    /\ sessionId = storage /\ sessionId = nextToken - 1

\* C11: a new-session reset returns the tour to NotStarted from every state:
\* right after a reset of the Dashboard the tour view is shown with the tour
\* not started and at its first stage, also when the reset was made while the
\* tour view was showing Stage(i).
C11_ResetToNotStarted ==
    (lastOp \in ResetOps /\ host = "Dashboard")
        => TourViewActive /\ ~tourStarted /\ currentStage = 0

\* C12: the session effect with no persisted token draws a new token,
\* persists it and issues no history request, and the Dashboard then shows an
\* empty timeline with the tour not started; with a persisted token it adopts
\* that token, writes no token and issues exactly one history request, keyed
\* by that token.
C12_Initialize ==
    [][lastOp'.op = "initialize"
          => IF storage = 0
             THEN /\ sessionId' = nextToken /\ sessionId' # 0
                  /\ storage' = sessionId'
                  /\ histReqs' = {}
                  /\ host = "Dashboard"
                       => /\ messages' = <<>>
                          /\ TourViewActive' /\ ~tourStarted' /\ currentStage' = 0
             ELSE /\ sessionId' = storage
                  /\ UNCHANGED <<storage, nextToken>>
                  /\ histReqs' = {storage}]_vars

\* C12 witness: the session was resumed from the persisted token and its
\* history has been requested.
C12_Witness ==
    /\ lastOp.op = "initialize"
    /\ sessionId = storage /\ nextToken = sessionId + 1
    /\ histReqs = {sessionId}

\* The event made is a send of a text that is empty after trimming: Enter on
\* a blank draft, or a click on a suggestion that is blank.
BlankSend ==
    \/ /\ lastOp'.op = "handleKeyDown" /\ lastOp'.arg = 0
       /\ ~Truthy(Trim(draft))
    \/ /\ lastOp'.op = "handleSuggestionClick"
       /\ \A i \in 1..Len(messages) :
             lastOp'.arg <= Len(messages[i].suggestions)
                 => ~Truthy(Trim(messages[i].suggestions[lastOp'.arg]))

\* C13: a send of a text that is empty after trimming is a no-op: no request
\* is issued and the timeline, the loading flag and the tour visibility are
\* unchanged.
C13_BlankSendNoOp ==
    [][BlankSend
          => /\ UNCHANGED <<messages, isLoading, showGuidedTour, showWelcome, chatReqs,
                            histReqs, nextSend, tourStarted, currentStage>>
             /\ TourViewActive' = TourViewActive]_vars

\* C13 witness: a blank suggestion of the only message was clicked while the
\* tour was switched on, and nothing was sent.
C13_Witness ==
    /\ lastOp.op = "handleSuggestionClick"
    /\ host = "Dashboard" /\ showGuidedTour
    /\ Len(messages) = 1
    /\ lastOp.arg <= Len(messages[1].suggestions)
    /\ ~Truthy(Trim(messages[1].suggestions[lastOp.arg]))
    /\ chatReqs = {}

\* C14: when the request of a send is rejected (transport failure or
\* non-success status), exactly one assistant message flagged isError is
\* appended, behind the user message of that send, and the timeline holds no
\* success message of that send.
C14_FailureAppendsError ==
    [][(lastOp'.op = "chatResponse" /\ lastOp'.outcome = "failed")
          => /\ Len(messages') = Len(messages) + 1
             /\ IsPrefix(messages, messages')
             /\ messages'[Len(messages')].role = "assistant"
             /\ messages'[Len(messages')].isError
             /\ \A n \in 1..MaxSends :
                   n = lastOp'.arg
                       => /\ messages'[Len(messages')].send = n
                          /\ Positions(n, "assistant")' = {Len(messages')}
                          /\ \A i \in Positions(n, "user")' : i < Len(messages')]_vars

\* C14 witness: the timeline is the user message of a send followed by the
\* error message of its rejected request.
C14_Witness ==
    /\ lastOp.op = "chatResponse" /\ lastOp.outcome = "failed"
    /\ Len(messages) = 2
    /\ messages[1].role = "user" /\ messages[1].send = lastOp.arg
    /\ messages[2].role = "assistant" /\ messages[2].isError
    /\ messages[2].send = lastOp.arg

\* C15: a response with success status that lacks required fields (no answer
\* text, no payload) is treated as a failure: the message appended for it is an
\* assistant message flagged isError.
C15_MalformedIsError ==
    (lastOp.op = "chatResponse" /\ lastOp.outcome \in {"noResponseField", "nullData"})
        => /\ messages # <<>>
           /\ messages[Len(messages)].role = "assistant"
           /\ messages[Len(messages)].isError

\* C16: a failed history load leaves the timeline, the session token, the
\* tour visibility and the loading flag as they were, and does not block a
\* later send: the page stays ready and the loading flag, the only gate of the
\* composer, is not taken by it.
C16_FailedLoadNoEffect ==
    [][(lastOp'.op = "historyResponse" /\ lastOp'.outcome = "failed")
          => /\ UNCHANGED <<messages, sessionId, storage, showGuidedTour, showWelcome,
                            isLoading, tourStarted, currentStage, chatReqs, draft>>
             /\ TourViewActive' = TourViewActive
             /\ pc' = "ready"
             /\ chatReqs' = {} => ~isLoading']_vars

\* C16 witness: the history load failed after a send had been made, and the
\* user message of the send is still the timeline.
C16_Witness ==
    /\ lastOp.op = "historyResponse" /\ lastOp.outcome = "failed"
    /\ Len(messages) = 1 /\ messages[1].role = "user"
    /\ isLoading
    /\ sessionId = storage

\* C17: loadHistory is idempotent: run on any timeline the page can hold, a
\* second run against the same answer of the service leaves the timeline the
\* first run left.
C17_LoadHistoryIdempotent ==
    \A outcome \in HistoryOutcomes :
        loadedTimeline(loadedTimeline(messages, outcome), outcome)
            = loadedTimeline(messages, outcome)

\* C17 witness: the timeline is the one a history load has put in place of a
\* timeline that held other messages.
C17_Witness ==
    /\ lastOp.op = "historyResponse" /\ lastOp.outcome = "ok"
    /\ nextSend > 1
    /\ Len(messages) = 2
    /\ \A i \in 1..Len(messages) : messages[i].send = 0
    /\ \E outcome \in HistoryOutcomes :
          /\ outcome.kind = "ok"
          /\ messages = FormattedMessages(outcome.messages)

\* C18: every chat request carries the mode and the module that are current
\* when the send is made (the Dashboard has the one mode general_qa), and a
\* request already issued keeps the body it was sent with, whatever the mode
\* is changed to afterwards.
C18_ModeAtSend ==
    [][/\ \A req \in chatReqs' \ chatReqs :
             /\ req.mode = IF host = "Dashboard" THEN <<"general", "_", "qa">> ELSE mode
             /\ req.mode = IF host = "Dashboard" THEN <<"general", "_", "qa">> ELSE mode'
             /\ req.module = SelectedModule
       /\ \A old \in chatReqs, new \in chatReqs' : new.id = old.id => new = old
       /\ lastOp'.op = "handleModeChange" => chatReqs' = chatReqs]_vars

\* C18 witness: a request sent after a mode change is in flight and carries
\* the mode the change selected, not the one the component started with.
C18_Witness ==
    /\ host = "ChatWidget"
    /\ modeChanges > 0
    /\ mode # <<"full", "_", "overview">>
    /\ Len(messages) >= 2
    /\ messages[Len(messages)].role = "user"
    /\ messages[Len(messages) - 1].role = "system"
    /\ \E req \in chatReqs : req.id = messages[Len(messages)].send /\ req.mode = mode

\* C19: a mode change appends exactly one system annotation and changes
\* nothing else: the earlier messages, the session token, the loading flag and
\* the requests in flight are as they were.
C19_ModeChangeFrame ==
    [][lastOp'.op = "handleModeChange"
          => /\ Len(messages') = Len(messages) + 1
             /\ IsPrefix(messages, messages')
             /\ messages'[Len(messages')].role = "system"
             /\ UNCHANGED <<sessionId, storage, isLoading, chatReqs, histReqs, showWelcome,
                            draft, nextSend, nextToken>>]_vars

\* C19 witness: the mode was changed in a conversation with a request in
\* flight, and the annotation stands behind the earlier messages.
C19_Witness ==
    /\ lastOp.op = "handleModeChange"
    /\ Len(messages) >= 3
    /\ messages[Len(messages)].role = "system"
    /\ messages[Len(messages) - 1].role = "user"
    /\ chatReqs # {} /\ isLoading

\* C20: only a reset replaces the session token: every event other than the
\* session effect and a reset (send, response, history load, mode change, tour
\* action, focus shortcut) leaves the token in memory and the persisted token
\* as they were.
C20_TokenOnlyByReset ==
    [][(lastOp' \notin ResetOps /\ lastOp'.op # "initialize")
          => UNCHANGED <<sessionId, storage>>]_vars

\* C20 witness: the tour was left and a send was made, and the token is the
\* one the session effect set.
C20_Witness ==
    /\ lastOp.op \in {"handleSubmit", "handleKeyDown"}
    /\ host = "Dashboard" /\ ~showGuidedTour
    /\ nextSend > 1 /\ nextToken = 2
    /\ sessionId = 1 /\ storage = 1

\* C21: '/' calls focus() on the composer only when the target of the key
\* event is not an editable control, and with an editable target the event
\* changes nothing; Ctrl/Cmd+K performs a reset whatever the target is, also
\* while a request is in flight.
C21_ShortcutScoping ==
    [][/\ lastOp'.op = "key-/"
            => /\ lastOp'.focuses = 1 => lastOp'.target \notin {"INPUT", "TEXTAREA"}
               /\ lastOp'.target \in {"INPUT", "TEXTAREA"}
                     => lastOp'.focuses = 0 /\ UNCHANGED <<core, draft>>
       /\ (lastOp'.op = "key-k" /\ lastOp'.arg = 1)
            => /\ sessionId' # sessionId
               /\ storage' = sessionId'
               /\ messages' = <<>>
               /\ showGuidedTour']_vars

\* C21 witness: Ctrl/Cmd+K was pressed in the composer, on a draft, and the
\* session is a new one.
C21_Witness ==
    /\ lastOp.op = "key-k" /\ lastOp.arg = 1
    /\ lastOp.target = "TEXTAREA"
    /\ draft # <<>>
    /\ sessionId = nextToken - 1 /\ sessionId = storage /\ sessionId > 1
    /\ messages = <<>>

\* The events of the GuidedTour component.
TourOps == {"handleStartTour", "handleContinue", "handleDeepDive", "handleAskQuestion",
            "handleStageClick"}

\* C22: askQuestion ends the tour from the welcome screen and from every
\* stage, calling the exit callback once; once the tour is ended the tour view
\* is not active again, no tour event happens and the tour state does not
\* change until a reset is made.
C22_ExitedUntilReset ==
    [][/\ lastOp'.op = "handleAskQuestion"
            => TourViewActive /\ ~showGuidedTour' /\ ~TourViewActive' /\ lastOp'.exits = 1
       /\ (host = "Dashboard" /\ pc = "ready" /\ ~showGuidedTour /\ lastOp' \notin ResetOps)
            => /\ ~showGuidedTour' /\ ~TourViewActive'
               /\ lastOp'.op \notin TourOps
               /\ UNCHANGED <<tourStarted, currentStage>>]_vars

\* C22 witness: the tour was ended before any message existed, another event
\* has happened since, and the timeline view is still the one shown.
C22_Witness ==
    /\ host = "Dashboard" /\ pc = "ready"
    /\ ~showGuidedTour
    /\ messages = <<>> /\ nextSend = 1
    /\ lastOp.op = "handleChange"
    /\ ~tourStarted /\ currentStage = 0

\* C23: a reset cancels no request in flight, and the response of a request
\* of an earlier session is appended, as one terminal message, to the timeline
\* that is current when it arrives.
C23_StaleResponseAppended ==
    [][/\ lastOp' \in ResetOps => chatReqs' = chatReqs
       /\ \A req \in chatReqs \ chatReqs' :
             req.session_id # sessionId
                 => /\ sessionId' = sessionId
                    /\ Len(messages') = Len(messages) + 1
                    /\ IsPrefix(messages, messages')
                    /\ messages'[Len(messages')].role = "assistant"
                    /\ messages'[Len(messages')].send = req.id]_vars

\* C23 witness: the timeline of the new session holds nothing but the
\* terminal message of a send made in the session before.
C23_Witness ==
    /\ host = "Dashboard"
    /\ lastOp.op = "chatResponse"
    /\ sessionId = nextToken - 1 /\ sessionId > 1
    /\ Len(messages) = 1
    /\ messages[1].role = "assistant" /\ messages[1].send = lastOp.arg
    /\ nextSend = 2

\* C24: an accepted send appends the user message and sets the loading flag
\* in the step that issues the request, so in every timeline the user message
\* of a send stands before that send's terminal message.
C24_OptimisticAppend ==
    [][/\ \A req \in chatReqs' \ chatReqs :
             /\ messages' = Append(messages, UserMessage(req.message, req.id))
             /\ isLoading'
       /\ \A n \in 1..MaxSends :
             \A i \in Positions(n, "user")', j \in Positions(n, "assistant")' : i < j]_vars

\* C24 witness: the request of a send is in flight and the timeline already
\* ends with the user message of that send.
C24_Witness ==
    /\ isLoading
    /\ Len(messages) = 1
    /\ messages[1].role = "user"
    /\ \E req \in chatReqs : req.id = messages[1].send /\ req.message = messages[1].content

\* The events that call the host's handleSendMessage.
SendOps == {"handleSubmit", "handleKeyDown", "handleSuggestionClick", "api", "quickstart",
            "handleDeepDive"}

\* C25: there is no automatic retry: a request is issued only by a send
\* event, one per accepted send, and the arrival of a response, a rejection
\* included, removes that request and issues no other.
C25_NoRetry ==
    [][/\ Cardinality(chatReqs' \ chatReqs) <= 1
       /\ \A req \in chatReqs' \ chatReqs :
             /\ lastOp'.op \in SendOps
             /\ req.id = nextSend /\ nextSend' = nextSend + 1
       /\ chatReqs' \ chatReqs = {} => nextSend' = nextSend
       /\ lastOp'.op = "chatResponse"
             => /\ Cardinality(chatReqs') = Cardinality(chatReqs) - 1
                /\ chatReqs' = {req \in chatReqs : req.id # lastOp'.arg}]_vars

\* C25 witness: the only request made was rejected, and none is in flight.
C25_Witness ==
    /\ lastOp.op = "chatResponse" /\ lastOp.outcome = "failed"
    /\ nextSend = 2
    /\ chatReqs = {}
    /\ Len(messages) = 2 /\ messages[2].isError

C27_StartToStageZero ==
    [][/\ (TourViewActive' /\ ~tourStarted') => currentStage' = 0
       /\ lastOp'.op = "handleStartTour"
             => /\ TourViewActive /\ ~tourStarted
                /\ TourViewActive' /\ tourStarted' /\ currentStage' = 0]_vars

\* C27 witness: a tour was started after a reset and after a send had been
\* made, and it shows stage 0.
C27_Witness ==
    /\ lastOp.op = "handleStartTour"
    /\ nextSend > 1 /\ sessionId = nextToken - 1 /\ sessionId > 1
    /\ tourStarted /\ currentStage = 0

\* C28: no stage is skipped: a step that shows a stage shows stage 0 or, in
\* a tour that was already showing a stage, a stage at most one above the
\* one shown before; a tracker click on a stage not above the current one
\* shows that stage again.
C28_NoStageSkipped ==
    [][/\ (TourViewActive' /\ tourStarted')
            => \/ currentStage' = 0
               \/ TourViewActive /\ tourStarted /\ currentStage' <= currentStage + 1
       /\ (lastOp'.op = "handleStageClick" /\ lastOp'.arg <= currentStage)
            => TourViewActive' /\ tourStarted' /\ currentStage' = lastOp'.arg]_vars

\* C28 witness: a tracker click has shown the last stage.
C28_Witness ==
    /\ lastOp.op = "handleStageClick"
    /\ lastOp.arg = NumStages - 1
    /\ TourViewActive /\ tourStarted /\ currentStage = NumStages - 1

\* C29: a successful history load with a non-empty result leaves exactly the
\* returned messages in the returned order: as many entries, each with the
\* role and the content of the returned message at the same position.
C29_HistoryVerbatim ==
    \A outcome \in HistoryOutcomes :
        (outcome.kind = "ok" /\ Len(outcome.messages) > 0)
            => /\ Len(loadedTimeline(messages, outcome)) = Len(outcome.messages)
               /\ \A i \in 1..Len(outcome.messages) :
                     /\ loadedTimeline(messages, outcome)[i].role = outcome.messages[i].role
                     /\ loadedTimeline(messages, outcome)[i].content
                           = outcome.messages[i].content

\* C29 witness: a history that starts with an assistant message was loaded
\* over a timeline, and the timeline starts with that message.
C29_Witness ==
    /\ lastOp.op = "historyResponse" /\ lastOp.outcome = "ok"
    /\ nextSend > 1
    /\ Len(messages) = 2
    /\ messages[1].role = "assistant" /\ messages[1].send = 0
    /\ messages[2].role = "user" /\ messages[2].send = 0

\* C30: in the composer Shift+Enter submits nothing; Enter and the send
\* button submit: when the trimmed draft is not empty and the composer is not
\* disabled the draft is sent as it is and the composer is emptied, otherwise
\* no send is made and the draft is left as it is.
C30_ComposerSubmit ==
    [][/\ (lastOp'.op = "handleKeyDown" /\ lastOp'.arg = 1) => UNCHANGED <<core, draft>>
       /\ (lastOp'.op = "handleSubmit" \/ (lastOp'.op = "handleKeyDown" /\ lastOp'.arg = 0))
            => IF Truthy(Trim(draft)) /\ ~isLoading
               THEN /\ draft' = <<>>
                    /\ \E req \in chatReqs' \ chatReqs :
                          req.message = draft /\ chatReqs' = chatReqs \cup {req}
               ELSE UNCHANGED <<core, draft>>]_vars

\* C30 witness: Enter was pressed on a draft of white space: nothing was
\* sent and the draft is still there.
C30_Witness ==
    /\ lastOp = Op("handleKeyDown", 0)
    /\ draft = <<" ">>
    /\ chatReqs = {} /\ nextSend = 1 /\ messages = <<>>

\* C31: the Sidebar's Ask Now closes any active tour: right after it the
\* tour view is not the active view.
C31_AskNowClosesTour == lastOp.op = "ask-now" => ~TourViewActive

\* C32: the loading flag is true exactly when at least one chat request is
\* in flight.
C32_LoadingIffInFlight == isLoading <=> chatReqs # {}

\* C33: a history load started for a token is not applied to the timeline
\* once a reset has replaced that token: the response of a load keyed by
\* another token than the current one leaves the timeline as it is.
C33_NoStaleHistory ==
    [][(lastOp'.op = "historyResponse" /\ lastOp'.arg # sessionId)
          => UNCHANGED messages]_vars

\* C34: a history load discards no message appended by send: every message
\* of a send that is in the timeline when the history response arrives is in
\* the timeline afterwards.
C34_HistoryKeepsSends ==
    [][lastOp'.op = "historyResponse"
          => \A i \in 1..Len(messages) :
                messages[i].send # 0
                    => \E j \in 1..Len(messages') : messages'[j] = messages[i]]_vars

\* C35: in every state after the session effect the token in memory is not
\* null and equals the persisted token, and every chat request carries the
\* token that is current when it is issued.
C35_TokenConsistent ==
    [][/\ pc' = "ready" => (sessionId' # 0 /\ sessionId' = storage')
       /\ \A req \in chatReqs' \ chatReqs :
             req.session_id = sessionId /\ req.session_id = sessionId']_vars

\* C35 witness: a request made after a reset is in flight and carries the
\* new token.
C35_Witness ==
    /\ sessionId = nextToken - 1 /\ sessionId > 1 /\ sessionId = storage
    /\ lastOp.op \in SendOps
    /\ \E req \in chatReqs : req.id = nextSend - 1 /\ req.session_id = sessionId

\* C36: the stage index of the tour stays within 0..N-1, so the stage
\* descriptor rendered is always defined.
C36_StageInRange == currentStage \in 0..(NumStages - 1)

\* C36 witness: continue has brought the tour to its last stage.
C36_Witness ==
    /\ lastOp = Op("handleContinue", NumStages - 2)
    /\ TourViewActive /\ tourStarted
    /\ currentStage = NumStages - 1

\* C37: in the Dashboard a history response dismisses the tour only when it
\* carries at least one message, and then whatever stage the tour is at; an
\* empty or failed load leaves the timeline, the tour view and the tour state
\* as they were, as on a fresh start.
C37_EmptyHistoryKeepsTour ==
    [][(host = "Dashboard" /\ lastOp'.op = "historyResponse")
          => IF lastOp'.outcome = "ok" /\ lastOp'.returned > 0
             THEN /\ ~showGuidedTour' /\ ~TourViewActive'
                  /\ Len(messages') = lastOp'.returned
             ELSE /\ UNCHANGED <<messages, showGuidedTour, tourStarted, currentStage>>
                  /\ TourViewActive' = TourViewActive]_vars

\* C37 witness: the empty history of the resumed session arrived while the
\* tour was showing a later stage, and the tour is still showing it.
C37_Witness ==
    /\ lastOp.op = "historyResponse" /\ lastOp.outcome = "ok" /\ lastOp.returned = 0
    /\ lastOp.arg = sessionId
    /\ messages = <<>>
    /\ TourViewActive /\ tourStarted /\ currentStage > 0
====
